---- MODULE Spec2Model ----
(***************************************************************************)
(* Model of the Coxeter-diagram parser of src/polytope/concrete/cd.rs:     *)
(* Cd::new drives CdBuilder::create_node and CdBuilder::create_edge over   *)
(* the characters of the input; Node::parse and Edge::parse decode the     *)
(* runs; Cd::cox derives the Coxeter matrix from the finished graph, and   *)
(* CoxMatrix::normals and Cd::circumradius compute the geometry from it.   *)
(*                                                                         *)
(* Representation.                                                         *)
(*  - A character is a one-character string; the two non-ASCII characters  *)
(*    of the model are written by their code points (EAcute, Degree).  A   *)
(*    string is a sequence of characters.                                  *)
(*  - Indices are zero-based as in the code.  A usize that wrapped below   *)
(*    zero (release build) is written as the negative number it wrapped    *)
(*    from: -1 stands for usize::MAX.                                      *)
(*  - A Float is a fixed-point number, in units of 1/Scale.  An edge       *)
(*    value and a matrix entry is the fraction [num, den] whose quotient   *)
(*    the code computes; two of them are equal floats when FloatEq holds.  *)
(*  - A Result is a record with tag "Ok", "Err" (kind, idx) or "Panic".    *)
(***************************************************************************)
EXTENDS Integers, Sequences, FiniteSets, TLC

(***************************************************************************)
(* Characters                                                              *)
(***************************************************************************)
LowerSeq ==
  << "a", "b", "c", "d", "e", "f", "g", "h", "i", "j", "k", "l", "m",
     "n", "o", "p", "q", "r", "s", "t", "u", "v", "w", "x", "y", "z" >>

UpperSeq ==
  << "A", "B", "C", "D", "E", "F", "G", "H", "I", "J", "K", "L", "M",
     "N", "O", "P", "Q", "R", "S", "T", "U", "V", "W", "X", "Y", "Z" >>

DigitSeq == << "0", "1", "2", "3", "4", "5", "6", "7", "8", "9" >>

Range(s) == { s[k] : k \in DOMAIN s }

\* 'e' with an acute accent: alphabetic, two bytes in UTF-8.
EAcute == "U+00E9"

\* The degree sign: not alphabetic, two bytes in UTF-8.
Degree == "U+00B0"

\* char::len_utf8, which str::len sums.
len_utf8(c) == IF c \in {EAcute, Degree} THEN 2 ELSE 1

\* char::is_digit(10)
is_digit(c) == c \in Range(DigitSeq)

\* char::is_alphabetic
is_alphabetic(c) == c \in Range(LowerSeq) \cup Range(UpperSeq) \cup {EAcute}

\* The value of a decimal digit.
DigitVal(c) == (CHOOSE k \in DOMAIN DigitSeq : DigitSeq[k] = c) - 1

RECURSIVE ByteLen(_)
\* str::len: the length in bytes.
ByteLen(s) == IF s = << >> THEN 0 ELSE len_utf8(Head(s)) + ByteLen(Tail(s))

(***************************************************************************)
(* Results                                                                 *)
(***************************************************************************)
Err(kind, idx) == [tag |-> "Err", kind |-> kind, idx |-> idx]

Panic(msg) == [tag |-> "Panic", msg |-> msg]

None == [some |-> FALSE]

Some(v) == [some |-> TRUE, v |-> v]

(***************************************************************************)
(* Numbers                                                                 *)
(***************************************************************************)
\* The largest i32.
I32Max == 2147483647

\* Fixed-point unit of a Float: a value v is written v * Scale.
Scale == 1000

RECURSIVE DigitsValue(_, _)
\* The value of a run of digits read after the value acc, or -1 when it
\* leaves the range of i32.
DigitsValue(s, acc) ==
  IF s = << >> THEN acc
  ELSE LET d == DigitVal(Head(s)) IN
       IF acc > (I32Max - d) \div 10 THEN -1
       ELSE DigitsValue(Tail(s), acc * 10 + d)

AllDigits(s) == \A k \in DOMAIN s : is_digit(s[k])

\* <i32 as FromStr>::from_str: an optional sign, then one digit or more,
\* within range.  (The negative bound is one larger in magnitude; no run the
\* parser passes here is signed.)
parse_i32(s) ==
  LET signed == s # << >> /\ Head(s) \in {"+", "-"}
      body == IF signed THEN Tail(s) ELSE s
      v == DigitsValue(body, 0)
  IN  IF body = << >> \/ ~AllDigits(body) \/ v < 0
      THEN [ok |-> FALSE]
      ELSE [ok |-> TRUE, val |-> IF signed /\ Head(s) = "-" THEN 0 - v ELSE v]

RECURSIVE FracValue(_, _)
\* The first digits of a fraction part, in units of 1/Scale.
FracValue(s, unit) ==
  IF s = << >> \/ unit = 0 THEN 0
  ELSE DigitVal(Head(s)) * unit + FracValue(Tail(s), unit \div 10)

RECURSIVE IntValue(_, _)
\* The value of the integer part of a decimal literal.
IntValue(s, acc) ==
  IF s = << >> THEN acc ELSE IntValue(Tail(s), acc * 10 + DigitVal(Head(s)))

\* <f64 as FromStr>::from_str on an unsigned run: digits, an optional point
\* and digits, with a digit on one side of the point at least.  The
\* characters of an exponent are not in the alphabet of the model, so every
\* other character makes the parse fail.  The value is in units of 1/Scale.
parse_f64(s) ==
  LET dots == { k \in DOMAIN s : s[k] = "." }
      dot == IF dots = {} THEN Len(s) + 1 ELSE CHOOSE k \in dots : TRUE
      int == SubSeq(s, 1, dot - 1)
      frac == SubSeq(s, dot + 1, Len(s))
  IN  IF \/ Cardinality(dots) > 1
         \/ (int = << >> /\ frac = << >>)
         \/ ~AllDigits(int)
         \/ ~AllDigits(frac)
      THEN [ok |-> FALSE]
      ELSE [ok |-> TRUE,
            val |-> IntValue(int, 0) * Scale + FracValue(frac, Scale \div 10)]

(***************************************************************************)
(* Floats of the geometry (Float = f64)                                    *)
(*                                                                         *)
(* A float is NaN or a fixed-point number in units of 1/Scale, kept within *)
(* -FMax..FMax: a result beyond that range is written as the bound (the    *)
(* floats of the code have no such bound; the bound keeps the products of  *)
(* the model within 32 bits).  Comparisons with NaN are false, and every   *)
(* operation on a NaN gives a NaN, as in IEEE 754.                         *)
(***************************************************************************)
\* The largest magnitude of a float of the model, in units of 1/Scale.
FMax == 46340

\* f64::consts::PI, in units of 1/Scale.
PiFix == 3142

\* Float::EPS: the smallest positive float of the model stands for it.
EPS == 1

NaN == [nan |-> TRUE, v |-> 0]

Clamp(n) == IF n > FMax THEN FMax ELSE IF n < 0 - FMax THEN 0 - FMax ELSE n

F(n) == [nan |-> FALSE, v |-> Clamp(n)]

FAdd(a, b) == IF a.nan \/ b.nan THEN NaN ELSE F(a.v + b.v)

FSub(a, b) == IF a.nan \/ b.nan THEN NaN ELSE F(a.v - b.v)

\* The product, rounded to 1/Scale.
FMul(a, b) ==
  IF a.nan \/ b.nan THEN NaN ELSE F((a.v * b.v + Scale \div 2) \div Scale)

\* The quotient, rounded to 1/Scale; 0/0 is NaN, and x/0 an infinity, which
\* is written as the bound of the range.
FDiv(a, b) ==
  IF a.nan \/ b.nan THEN NaN
  ELSE IF b.v = 0
       THEN (IF a.v = 0 THEN NaN ELSE IF a.v > 0 THEN F(FMax) ELSE F(0 - FMax))
  ELSE LET q == (2 * a.v * Scale + (IF b.v > 0 THEN b.v ELSE 0 - b.v))
                  \div (2 * (IF b.v > 0 THEN b.v ELSE 0 - b.v))
       IN  F(IF b.v > 0 THEN q ELSE 0 - q)

FLt(a, b) == ~a.nan /\ ~b.nan /\ a.v < b.v

FGt(a, b) == ~a.nan /\ ~b.nan /\ a.v > b.v

FGe(a, b) == ~a.nan /\ ~b.nan /\ a.v >= b.v

RECURSIVE SqrtBetween(_, _, _)
\* The largest n in lo..hi with (2n - 1)^2 < 4y: the square root of y,
\* rounded to the nearest integer.
SqrtBetween(lo, hi, y) ==
  IF lo >= hi THEN lo
  ELSE LET mid == (lo + hi + 1) \div 2 IN
       IF (2 * mid - 1) * (2 * mid - 1) < 4 * y
       THEN SqrtBetween(mid, hi, y)
       ELSE SqrtBetween(lo, mid - 1, y)

\* f64::sqrt: NaN of a negative number.
FSqrt(a) ==
  IF a.nan \/ a.v < 0 THEN NaN
  ELSE F(SqrtBetween(0, 7 * Scale, a.v * Scale))

\* cos(PI / n) for the marks 1..12, rounded to 1/Scale.
CosTable == << 0 - 1000, 0, 500, 707, 809, 866, 901, 924, 940, 951, 959, 966 >>

\* (PI / p).cos() for an entry p = num/den of the matrix.  PI / 0 is an
\* infinity, whose cosine is NaN.  Beyond the table the angle x is small and
\* the cosine is 1 - x^2/2 + x^4/24 to 1/Scale.
CosPiOver(p) ==
  IF p.num = 0 THEN NaN
  ELSE IF p.den = 1 /\ p.num \in DOMAIN CosTable THEN F(CosTable[p.num])
  ELSE LET x == F((PiFix * p.den) \div p.num)
           x2 == FMul(x, x)
           x4 == FMul(x2, x2)
       IN  FAdd(FSub(F(Scale), FDiv(x2, F(2 * Scale))), FDiv(x4, F(24 * Scale)))

(***************************************************************************)
(* Node                                                                    *)
(***************************************************************************)
Unringed == [kind |-> "Unringed", val |-> 0]

ringed(x) == [kind |-> "Ringed", val |-> x]

snub(x) == [kind |-> "Snub", val |-> x]

\* The letters of the shortchord table of Node::parse.
TableSymbols ==
  { "o", "s", "v", "x", "q", "f", "h", "k", "u", "w", "F", "e", "Q", "d",
    "V", "U", "A", "X", "B" }

\* The table with the constant of "h" under "q" too.
TableNode_q_as_h(c) ==
  CASE c = "o" -> Unringed
    [] c = "s" -> snub(1 * Scale)
    [] c = "v" -> ringed(618)
    [] c = "x" -> ringed(1 * Scale)
    [] c = "q" -> ringed(1732)
    [] c = "f" -> ringed(1618)
    [] c = "h" -> ringed(1732)
    [] c = "k" -> ringed(1848)
    [] c = "u" -> ringed(2 * Scale)
    [] c = "w" -> ringed(2414)
    [] c = "F" -> ringed(2618)
    [] c = "e" -> ringed(2732)
    [] c = "Q" -> ringed(2828)
    [] c = "d" -> ringed(3 * Scale)
    [] c = "V" -> ringed(3236)
    [] c = "U" -> ringed(3414)
    [] c = "A" -> ringed(1809)
    [] c = "X" -> ringed(3828)
    [] c = "B" -> ringed(4236)

\* The node of a table letter; the constants are rounded to 1/Scale.
TableNode(c) ==
  CASE c = "o" -> Unringed
    [] c = "s" -> snub(1 * Scale)
    [] c = "v" -> ringed(618)
    [] c = "x" -> ringed(1 * Scale)
    [] c = "q" -> ringed(1414)
    [] c = "f" -> ringed(1618)
    [] c = "h" -> ringed(1732)
    [] c = "k" -> ringed(1848)
    [] c = "u" -> ringed(2 * Scale)
    [] c = "w" -> ringed(2414)
    [] c = "F" -> ringed(2618)
    [] c = "e" -> ringed(2732)
    [] c = "Q" -> ringed(2828)
    [] c = "d" -> ringed(3 * Scale)
    [] c = "V" -> ringed(3236)
    [] c = "U" -> ringed(3414)
    [] c = "A" -> ringed(1809)
    [] c = "X" -> ringed(3828)
    [] c = "B" -> ringed(4236)

\* The index the closure of raw_iter gives the k-th (zero-based) character
\* of a slice of len bytes that ends at index idx.
SliceIdx(idx, k, len) == idx + k + 1 - len

\* Node::parse with the sign of a literal dropped.
NodeParse_unsigned(raw, idx, build) ==
  LET len == ByteLen(raw)
      n == Len(raw)
      idx0 == SliceIdx(idx, 0, len)
      paren == raw[1] = "("
      p1 == IF paren THEN 2 ELSE 1
      idx1 == IF paren THEN idx0 + 1 ELSE idx0
      minus == raw[p1] = "-"
      p2 == IF minus THEN p1 + 1 ELSE p1
      idx2 == IF minus THEN idx1 + 1 ELSE idx1
      c == raw[p2]
      closes == { q \in (p2 + 1)..n : raw[q] = ")" }
      close == CHOOSE q \in closes : \A r \in closes : q <= r
      val == parse_f64(SubSeq(raw, p2, close - 1))
  IN  IF n = 0 THEN Panic("Node can't be empty!")
      ELSE IF build = "debug" /\ idx0 < 0 THEN Panic("attempt to subtract with overflow")
      ELSE IF paren /\ n < 2 THEN Err("MismatchedParenthesis", idx1)
      ELSE IF minus /\ n < p2 THEN Err("MismatchedParenthesis", idx2)
      ELSE IF is_digit(c)
           THEN IF closes = {} THEN Err("MismatchedParenthesis", idx2)
                ELSE IF ~val.ok THEN Err("ParseError", SliceIdx(idx, close - 1, len))
                ELSE [tag |-> "Ok", node |-> ringed(val.val)]
      ELSE IF c \in TableSymbols THEN [tag |-> "Ok", node |-> TableNode(c)]
      ELSE Err("InvalidSymbol", idx2)

\* Node::parse(raw, idx): raw is the node token, idx the index of its last
\* character.  The first raw_iter.next() computes idx + 1 - len, which
\* underflows when raw holds more bytes than idx + 1: the debug build panics
\* there, the release build wraps.
NodeParse(raw, idx, build) ==
  LET len == ByteLen(raw)
      n == Len(raw)
      idx0 == SliceIdx(idx, 0, len)
      \* after "Skips any opening parenthesis"
      paren == raw[1] = "("
      p1 == IF paren THEN 2 ELSE 1
      idx1 == IF paren THEN idx0 + 1 ELSE idx0
      \* after "Skips a minus sign"
      minus == raw[p1] = "-"
      p2 == IF minus THEN p1 + 1 ELSE p1
      idx2 == IF minus THEN idx1 + 1 ELSE idx1
      sign == IF minus THEN 0 - 1 ELSE 1
      c == raw[p2]
      closes == { q \in (p2 + 1)..n : raw[q] = ")" }
      close == CHOOSE q \in closes : \A r \in closes : q <= r
      val == parse_f64(SubSeq(raw, p2, close - 1))
  IN  IF n = 0 THEN Panic("Node can't be empty!")
      ELSE IF build = "debug" /\ idx0 < 0 THEN Panic("attempt to subtract with overflow")
      ELSE IF paren /\ n < 2 THEN Err("MismatchedParenthesis", idx1)
      ELSE IF minus /\ n < p2 THEN Err("MismatchedParenthesis", idx2)
      ELSE IF is_digit(c)
           THEN IF closes = {} THEN Err("MismatchedParenthesis", idx2)
                ELSE IF ~val.ok THEN Err("ParseError", SliceIdx(idx, close - 1, len))
                ELSE [tag |-> "Ok", node |-> ringed(sign * val.val)]
      ELSE IF c \in TableSymbols THEN [tag |-> "Ok", node |-> TableNode(c)]
      ELSE Err("InvalidSymbol", idx2)

(***************************************************************************)
(* Edge                                                                    *)
(***************************************************************************)
RECURSIVE EdgeLoop(_, _, _, _, _)
\* The loop of Edge::parse over the characters of raw after the first: k is
\* the position (one-based) of the next character, edge the run being read,
\* numerator the parsed numerator if a "/" was met.  A "/" is pushed onto
\* the run that follows it.
EdgeLoop(raw, idx, k, edge, numerator) ==
  IF k > Len(raw)
  THEN LET last == parse_i32(edge) IN
       IF ~last.ok THEN Err("ParseError", idx)
       ELSE IF numerator.some
            THEN [tag |-> "Ok", edge |-> [num |-> numerator.v, den |-> last.val]]
            ELSE [tag |-> "Ok", edge |-> [num |-> last.val, den |-> 1]]
  ELSE IF raw[k] = "/"
       THEN LET num == parse_i32(edge) IN
            IF ~num.ok THEN Err("ParseError", SliceIdx(idx, k - 1, ByteLen(raw)))
            ELSE EdgeLoop(raw, idx, k + 1, << raw[k] >>, Some(num.val))
       ELSE EdgeLoop(raw, idx, k + 1, Append(edge, raw[k]), numerator)

\* Edge::parse(raw, idx): raw is the run read by create_edge, idx the index
\* of the character that follows it.
EdgeParse(raw, idx, build) ==
  IF raw = << >> THEN Panic("Slice can't be empty!")
  ELSE IF build = "debug" /\ SliceIdx(idx, 0, ByteLen(raw)) < 0
       THEN Panic("attempt to subtract with overflow")
  ELSE IF ~is_digit(raw[1]) THEN Err("InvalidSymbol", idx)
  ELSE EdgeLoop(raw, idx, 2, << raw[1] >>, None)

\* Edge::value, as the fraction the division is taken of.
value(edge) == edge

\* Equality of the floats two fractions divide to (denominators not zero).
FloatEq(p, q) == p.num * q.den = q.num * p.den

(***************************************************************************)
(* Bounds and inputs                                                       *)
(***************************************************************************)
\* The longest input made of arbitrary characters of Alphabet.
MaxLen == 3

\* The largest number of (edge run, node token) pairs after the first node
\* token of a generated diagram.
MaxSegs == 3

\* The characters arbitrary inputs are made of.
Alphabet ==
  { "x", "o", "a", "*", "(", ")", "-", "2", "/", " ", EAcute, Degree }

\* The node tokens and the edge runs that diagrams with virtual nodes are
\* generated from.
NodeToks == { << "x" >>, << "o" >>, << "*", "a" >>, << "*", "b" >> }

EdgeToks == { << " " >>, << "3" >>, << "4" >> }

\* The node tokens and the edge marks that linear diagrams are generated
\* from: letters of the table and a literal; integers and a fraction.
LinearNodeToks == { << "x" >>, << "o" >>, << "(", "-", "1", ".", "5", ")" >> }

LinearEdgeToks == { << "3" >>, << "1", "0" >>, << "5", "/", "2" >> }

\* The inputs of the tests of cd.rs.
TestInputs ==
  { << "x", "1", "0", "x" >>,
    << "x", "3", "o", "3", "x" >>,
    << "x", "3", "o", "3", "o", "3", "o", "3", "o", " ", "*", "c", "3", "o" >>,
    << "(", "1", ".", "0", ")", "4", "(", "2", ".", "2", ")", "3",
       "(", "-", "3", ".", "0", ")" >>,
    << "s", "4", "s", "3", "o", "4", "o" >>,
    << "v", "4", "x", "3", "F", "4", "f" >> }

\* All strings over Alphabet of length n or less.
Strings(n) == UNION { [1..k -> Alphabet] : k \in 0..n }

RECURSIVE Diagrams(_, _, _)
\* A node token followed by n (edge run, node token) pairs or fewer.
Diagrams(nodeToks, edgeToks, n) ==
  IF n = 0 THEN nodeToks
  ELSE LET shorter == Diagrams(nodeToks, edgeToks, n - 1) IN
       shorter \cup { d \o e \o t : d \in shorter, e \in edgeToks, t \in nodeToks }

\* Endings that leave a node token unfinished or name no node, after an
\* edge mark: a reference by a digit, by a character that is no digit of
\* base 36, a reference cut short, and literals that are not closed.
BrokenTails ==
  { << "3", "*", "2" >>,
    << "3", "*", Degree >>,
    << "3", "*" >>,
    << "3", "(", "1", ".", "5" >>,
    << "3", "(", "-", EAcute >> }

\* A diagram of two node tokens or fewer, followed by a broken ending.
BrokenInputs ==
  { d \o t : d \in Diagrams(NodeToks, EdgeToks, 1), t \in BrokenTails }

\* Parenthesized literals, with and without a sign, alone, after a node and
\* an edge mark, and before an edge mark and a node.
LiteralSigns == { << >>, << "-" >>, << "+" >> }

LiteralDecimals ==
  { << "2" >>, << "1", ".", "5" >>, << "0", ".", "2", "5" >>,
    << "1", "0", ".", "0" >> }

LiteralToks ==
  { << "(" >> \o sg \o d \o << ")" >> : sg \in LiteralSigns, d \in LiteralDecimals }

LiteralInputs ==
  LiteralToks
    \cup { << "x", "3" >> \o t : t \in LiteralToks }
    \cup { t \o << "4", "o" >> : t \in LiteralToks }

\* Every letter of the table alone, and every pair of them around a mark.
SymbolInputs ==
  { << c >> : c \in TableSymbols }
    \cup { << c, "3", d >> : c \in TableSymbols, d \in TableSymbols }

Inputs ==
  Strings(MaxLen)
    \cup Diagrams(NodeToks, EdgeToks, MaxSegs)
    \cup Diagrams(LinearNodeToks, LinearEdgeToks, MaxSegs)
    \cup TestInputs
    \cup BrokenInputs
    \cup LiteralInputs
    \cup SymbolInputs

\* An input with a character of more than one byte; the two builds differ
\* on such inputs alone (the subtraction of SliceIdx underflows on no other).
HasMultiByte(s) == \E k \in DOMAIN s : len_utf8(s[k]) > 1

(***************************************************************************)
(* State                                                                   *)
(***************************************************************************)
VARIABLES
  input,      \* the argument of Cd::new
  build,      \* "debug" (overflow checks) or "release" (wrapping)
  pos,        \* CdBuilder.diagram: the number of characters consumed
  nodes,      \* CdBuilder.cd: the node weights, in index order
  edges,      \* CdBuilder.cd: the edges [a, b, w], in order of insertion
  next_edge,  \* CdBuilder.next_edge
  pc,         \* where Cd::new stands: "create_node", "create_edge", "done"
  edge_res,   \* what the last call of create_edge returned
  result,     \* what Cd::new returned
  normals_pc, \* where CoxMatrix::normals stands: "idle", "fill", "check", "done"
  col,        \* normals: the column i of the outer loop
  mat,        \* normals: the matrix being built, mat[column][row]
  normals_res,  \* what CoxMatrix::normals returned
  radius_res,   \* what Cd::circumradius returned
  generator_res,  \* what Cd::generator returned
  lin_call,   \* the call of a constructor of CoxMatrix: [fn, d, n]
  lin_res     \* what the constructor returned

\* The variables of the geometry.
geo_vars == << normals_pc, col, mat, normals_res, radius_res, generator_res >>

\* The variables of the constructors of CoxMatrix.
lin_vars == << lin_call, lin_res >>

vars ==
  << input, build, pos, nodes, edges, next_edge, pc, edge_res, result,
     normals_pc, col, mat, normals_res, radius_res, generator_res,
     lin_call, lin_res >>

\* CdBuilder.len: the length of the input in bytes.
len == ByteLen(input)

\* Cd::new is called on an input of the set S; no method of the diagram has
\* been called.
InitOn(S) ==
  /\ input \in S
  /\ build \in (IF HasMultiByte(input) THEN {"debug", "release"} ELSE {"debug"})
  /\ pos = 0
  /\ nodes = << >>
  /\ edges = << >>
  /\ next_edge = [node |-> None, edge |-> None]
  /\ pc = "create_node"
  /\ edge_res = [tag |-> "None"]
  /\ result = [tag |-> "None"]
  /\ normals_pc = "idle"
  /\ col = 0
  /\ mat = << >>
  /\ normals_res = [tag |-> "None"]
  /\ radius_res = [tag |-> "None"]
  /\ generator_res = [tag |-> "None"]
  /\ lin_call = [fn |-> "none", d |-> << >>, n |-> 0]
  /\ lin_res = [tag |-> "None"]

Init == InitOn(Inputs)

(***************************************************************************)
(* The graph (petgraph::Graph<Node, Edge, Undirected>)                     *)
(***************************************************************************)
\* add_edge as Graph::update_edge: an edge that already joins a and b
\* (in either direction) gets the weight w, and no edge is added.
add_edge_replacing(ns, es, a, b, w) ==
  LET joining == { k \in DOMAIN es :
                     \/ es[k].a = a /\ es[k].b = b
                     \/ es[k].a = b /\ es[k].b = a }
  IN  IF a >= Len(ns) \/ b >= Len(ns)
      THEN Panic("Graph::add_edge: node indices out of bounds")
      ELSE IF joining # {}
      THEN [tag |-> "Ok",
            edges |-> [k \in DOMAIN es |->
                        IF k \in joining THEN [es[k] EXCEPT !.w = w] ELSE es[k]]]
      ELSE [tag |-> "Ok", edges |-> Append(es, [a |-> a, b |-> b, w |-> w])]

\* Graph::add_edge(a, b, w): panics when an endpoint is no node of the
\* graph, and appends the edge otherwise, also beside an edge that already
\* joins a and b.
add_edge(ns, es, a, b, w) ==
  IF a >= Len(ns) \/ b >= Len(ns)
  THEN Panic("Graph::add_edge: node indices out of bounds")
  ELSE [tag |-> "Ok", edges |-> Append(es, [a |-> a, b |-> b, w |-> w])]

Max(S) == CHOOSE m \in S : \A k \in S : k <= m

Min(S) == CHOOSE m \in S : \A k \in S : m <= k

\* find_edge as a directed graph has it: the edges that enter a are not
\* looked at.
find_edge_directed(es, a, b) ==
  LET outgoing == { k \in DOMAIN es : es[k].a = a /\ es[k].b = b }
  IN  IF outgoing # {} THEN Max(outgoing) ELSE 0

\* Graph::find_edge(a, b) of an undirected graph: the list of the edges
\* that leave a is walked first, from the newest, for one that enters b;
\* then the list of the edges that enter a, for one that leaves b.  The
\* position of the edge in es, or 0.
find_edge(es, a, b) ==
  LET outgoing == { k \in DOMAIN es : es[k].a = a /\ es[k].b = b }
      incoming == { k \in DOMAIN es : es[k].b = a /\ es[k].a = b }
  IN  IF outgoing # {} THEN Max(outgoing)
      ELSE IF incoming # {} THEN Max(incoming)
      ELSE 0

(***************************************************************************)
(* CdBuilder                                                               *)
(***************************************************************************)
\* u8::from_str_radix(&c.to_string(), 36)
from_str_radix36(c) ==
  IF is_digit(c) THEN Some(DigitVal(c))
  ELSE IF c \in Range(LowerSeq)
       THEN Some(9 + CHOOSE k \in DOMAIN LowerSeq : LowerSeq[k] = c)
  ELSE IF c \in Range(UpperSeq)
       THEN Some(9 + CHOOSE k \in DOMAIN UpperSeq : UpperSeq[k] = c)
  ELSE None

\* The characters create_edge stops at.
IsNodeStart(d) == d = "(" \/ d = "*" \/ is_alphabetic(d)

\* What the match of create_node gives when a node token was read: the
\* position reached, the nodes of the graph and the index new_node.
NodeRead(p, ns, new_node) ==
  [res |-> [tag |-> "Ok"], pos |-> p, nodes |-> ns, new_node |-> new_node]

\* The arm '(' of the match of create_node: the "(" stands at position p of
\* s.  Characters are read up to the first ")", and Node::parse decodes them.
read_paren(s, p, ns, bld) ==
  LET closes == { q \in (p + 2)..Len(s) : s[q] = ")" } IN
  IF closes = {}
  THEN [res |-> Err("MismatchedParenthesis", ByteLen(s)), pos |-> Len(s)]
  ELSE LET q == Min(closes)
           parsed == NodeParse(SubSeq(s, p + 1, q), q - 1, bld)
       IN  IF parsed.tag = "Ok"
           THEN NodeRead(q, Append(ns, parsed.node), Len(ns))
           ELSE [res |-> parsed, pos |-> q]

\* The arm '*' with the index of the "*" in the error, in place of the
\* index of the character read after it.
read_virtual_at_star(s, p, ns) ==
  IF p + 1 >= Len(s)
  THEN [res |-> Err("UnexpectedEnding", ByteLen(s)), pos |-> p + 1]
  ELSE LET digit == from_str_radix36(s[p + 2]) IN
       IF ~digit.some \/ digit.v <= 9
       THEN [res |-> Err("InvalidSymbol", p), pos |-> p + 2]
       ELSE NodeRead(p + 2, ns, digit.v - 10)

\* The arm '*' with a node added for the reference.
read_virtual_adding(s, p, ns) ==
  IF p + 1 >= Len(s)
  THEN [res |-> Err("UnexpectedEnding", ByteLen(s)), pos |-> p + 1]
  ELSE LET digit == from_str_radix36(s[p + 2]) IN
       IF ~digit.some \/ digit.v <= 9
       THEN [res |-> Err("InvalidSymbol", p + 1), pos |-> p + 2]
       ELSE NodeRead(p + 2, Append(ns, Unringed), digit.v - 10)

\* The arm '*' of the match of create_node: the "*" stands at position p of
\* s.  The next character names the node; no node is added, and the index
\* is not compared with the number of nodes.
read_virtual(s, p, ns) ==
  IF p + 1 >= Len(s)
  THEN [res |-> Err("UnexpectedEnding", ByteLen(s)), pos |-> p + 1]
  ELSE LET digit == from_str_radix36(s[p + 2]) IN
       IF ~digit.some \/ digit.v <= 9
       THEN [res |-> Err("InvalidSymbol", p + 1), pos |-> p + 2]
       ELSE NodeRead(p + 2, ns, digit.v - 10)

\* The arm '_' of the match of create_node: the character at position p of
\* s is the node token.
read_single(s, p, ns, bld) ==
  LET parsed == NodeParse(<< s[p + 1] >>, p, bld) IN
  IF parsed.tag = "Ok"
  THEN NodeRead(p + 1, Append(ns, parsed.node), Len(ns))
  ELSE [res |-> parsed, pos |-> p + 1]

\* The first part of create_node, up to the end of its match: the node
\* token is read from position p of s; ns are the nodes so far.
read_node(s, p, ns, bld) ==
  IF p >= Len(s)
  THEN [res |-> Err("UnexpectedEnding", ByteLen(s)), pos |-> p]
  ELSE IF s[p + 1] = "(" THEN read_paren(s, p, ns, bld)
  ELSE IF s[p + 1] = "*" THEN read_virtual(s, p, ns)
  ELSE read_single(s, p, ns, bld)

\* create_node with the edge value of the slot kept after the edge is added.
create_node_keeping_edge(s, p, ns, es, ne, bld) ==
  LET read == read_node(s, p, ns, bld) IN
  IF read.res.tag # "Ok"
  THEN [res |-> read.res, pos |-> read.pos, nodes |-> ns, edges |-> es,
        next_edge |-> ne]
  ELSE
    LET added == IF ne.node.some /\ ne.edge.some
                 THEN add_edge(read.nodes, es, ne.node.v, read.new_node, ne.edge.v)
                 ELSE [tag |-> "Ok", edges |-> es]
    IN  IF added.tag # "Ok"
        THEN [res |-> added, pos |-> read.pos, nodes |-> read.nodes,
              edges |-> es, next_edge |-> ne]
        ELSE [res |-> [tag |-> "Ok"], pos |-> read.pos, nodes |-> read.nodes,
              edges |-> added.edges,
              next_edge |-> [node |-> Some(read.new_node), edge |-> ne.edge]]

\* CdBuilder::create_node: the builder after the call, and what it returned.
create_node(s, p, ns, es, ne, bld) ==
  LET read == read_node(s, p, ns, bld) IN
  IF read.res.tag # "Ok"
  THEN [res |-> read.res, pos |-> read.pos, nodes |-> ns, edges |-> es,
        next_edge |-> ne]
  ELSE
    LET added == IF ne.node.some /\ ne.edge.some
                 THEN add_edge(read.nodes, es, ne.node.v, read.new_node, ne.edge.v)
                 ELSE [tag |-> "Ok", edges |-> es]
    IN  IF added.tag # "Ok"
        THEN [res |-> added, pos |-> read.pos, nodes |-> read.nodes,
              edges |-> es, next_edge |-> ne]
        ELSE [res |-> [tag |-> "Ok"], pos |-> read.pos, nodes |-> read.nodes,
              edges |-> added.edges,
              next_edge |-> [node |-> Some(read.new_node), edge |-> None]]

\* create_edge with the run before the end of the input decoded as well:
\* Edge::parse is called when the input runs out.
create_edge_parsing_tail(s, p, ne, bld) ==
  LET starts == { k \in (p + 1)..Len(s) : IsNodeStart(s[k]) }
      k == IF starts = {} THEN Len(s) + 1
           ELSE CHOOSE m \in starts : \A o \in starts : m <= o
      parsed == EdgeParse(SubSeq(s, p + 1, k - 1), k - 1, bld)
  IN  IF parsed.tag = "Ok"
      THEN [res |-> [tag |-> "Ok", v |-> Some("unit")], pos |-> k - 1,
            next_edge |-> [ne EXCEPT !.edge = Some(parsed.edge)]]
      ELSE [res |-> parsed, pos |-> k - 1, next_edge |-> ne]

\* create_edge with the character it stops at consumed.
create_edge_consuming(s, p, ne, bld) ==
  LET starts == { k \in (p + 1)..Len(s) : IsNodeStart(s[k]) } IN
  IF starts = {}
  THEN [res |-> [tag |-> "Ok", v |-> None], pos |-> Len(s), next_edge |-> ne]
  ELSE LET k == CHOOSE m \in starts : \A o \in starts : m <= o
           parsed == EdgeParse(SubSeq(s, p + 1, k - 1), k - 1, bld)
       IN  IF parsed.tag = "Ok"
           THEN [res |-> [tag |-> "Ok", v |-> Some("unit")], pos |-> k,
                 next_edge |-> [ne EXCEPT !.edge = Some(parsed.edge)]]
           ELSE [res |-> parsed, pos |-> k, next_edge |-> ne]

\* create_edge with every character peeked and none consumed.
create_edge_peeking(s, p, ne, bld) ==
  LET starts == { k \in (p + 1)..Len(s) : IsNodeStart(s[k]) } IN
  IF starts = {}
  THEN [res |-> [tag |-> "Ok", v |-> None], pos |-> Len(s), next_edge |-> ne]
  ELSE LET k == CHOOSE m \in starts : \A o \in starts : m <= o
           parsed == EdgeParse(SubSeq(s, p + 1, k - 1), k - 1, bld)
       IN  IF parsed.tag = "Ok"
           THEN [res |-> [tag |-> "Ok", v |-> Some("unit")], pos |-> p,
                 next_edge |-> [ne EXCEPT !.edge = Some(parsed.edge)]]
           ELSE [res |-> parsed, pos |-> p, next_edge |-> ne]

\* CdBuilder::create_edge: the builder after the call, and what it returned
\* (Ok with v = None when the input ran out).
create_edge(s, p, ne, bld) ==
  LET starts == { k \in (p + 1)..Len(s) : IsNodeStart(s[k]) } IN
  IF starts = {}
  THEN [res |-> [tag |-> "Ok", v |-> None], pos |-> Len(s), next_edge |-> ne]
  ELSE LET k == Min(starts)
           parsed == EdgeParse(SubSeq(s, p + 1, k - 1), k - 1, bld)
       IN  IF parsed.tag = "Ok"
           THEN [res |-> [tag |-> "Ok", v |-> Some("unit")], pos |-> k - 1,
                 next_edge |-> [ne EXCEPT !.edge = Some(parsed.edge)]]
           ELSE [res |-> parsed, pos |-> k - 1, next_edge |-> ne]

(***************************************************************************)
(* Cd::new                                                                 *)
(***************************************************************************)
\* What the loop of Cd::new does with the return of create_node ("?"): an
\* error ends Cd::new, which returns it.
AfterNode(res) ==
  IF res.tag = "Ok" THEN [pc |-> "create_edge", result |-> [tag |-> "None"]]
  ELSE [pc |-> "done", result |-> res]

\* The loop of Cd::new with "?" on the return of create_edge: an error
\* ends Cd::new.
AfterEdge_propagating(res) ==
  IF res.tag = "Panic" \/ res.tag = "Err" THEN [pc |-> "done", result |-> res]
  ELSE IF ~res.v.some THEN [pc |-> "done", result |-> [tag |-> "Ok"]]
  ELSE [pc |-> "create_node", result |-> [tag |-> "None"]]

\* What the loop of Cd::new does with the return of create_edge
\* ("if let Ok(None)"): Ok(None) ends Cd::new, which returns the graph;
\* on every other return the loop goes on.
AfterEdge(res) ==
  IF res.tag = "Panic" THEN [pc |-> "done", result |-> res]
  ELSE IF res.tag = "Ok" /\ ~res.v.some
       THEN [pc |-> "done", result |-> [tag |-> "Ok"]]
  ELSE [pc |-> "create_node", result |-> [tag |-> "None"]]

\* One call of caret.create_node()? in the loop of Cd::new.
CreateNode ==
  /\ pc = "create_node"
  /\ LET r == create_node(input, pos, nodes, edges, next_edge, build)
         after == AfterNode(r.res)
     IN  /\ pos' = r.pos
         /\ nodes' = r.nodes
         /\ edges' = r.edges
         /\ next_edge' = r.next_edge
         /\ pc' = after.pc
         /\ result' = after.result
  /\ UNCHANGED << input, build, edge_res >>
  /\ UNCHANGED geo_vars
  /\ UNCHANGED lin_vars

\* One call of caret.create_edge() in the loop of Cd::new.
CreateEdge ==
  /\ pc = "create_edge"
  /\ LET r == create_edge(input, pos, next_edge, build)
         after == AfterEdge(r.res)
     IN  /\ pos' = r.pos
         /\ next_edge' = r.next_edge
         /\ edge_res' = r.res
         /\ pc' = after.pc
         /\ result' = after.result
  /\ UNCHANGED << input, build, nodes, edges >>
  /\ UNCHANGED geo_vars
  /\ UNCHANGED lin_vars

Next == CreateNode \/ CreateEdge

Spec == Init /\ [][Next]_vars

(***************************************************************************)
(* Cd: the views of the finished graph                                     *)
(***************************************************************************)
\* Cd::dim
dim == Len(nodes)

\* Cd::cox without the test i == j: the diagonal is looked up as well.
cox_no_diagonal(ns, es) ==
  [i \in 0..(Len(ns) - 1) |->
    [j \in 0..(Len(ns) - 1) |->
      LET e == find_edge(es, i, j) IN
      IF e # 0 THEN value(es[e].w)
      ELSE IF i = j THEN [num |-> 1, den |-> 1] ELSE [num |-> 2, den |-> 1]]]

\* Cd::cox: row i, column j of the matrix, zero-based.
cox(ns, es) ==
  [i \in 0..(Len(ns) - 1) |->
    [j \in 0..(Len(ns) - 1) |->
      IF i = j THEN [num |-> 1, den |-> 1]
      ELSE LET e == find_edge(es, i, j) IN
           IF e # 0 THEN value(es[e].w) ELSE [num |-> 2, den |-> 1]]]

\* Cd::new returned a diagram.
Returned == pc = "done" /\ result.tag = "Ok"

(***************************************************************************)
(* The geometry of a returned diagram: CoxMatrix::normals, Cd::circumradius *)
(***************************************************************************)
\* The largest number of (edge mark, node) pairs of a diagram whose
\* geometry is computed.
GeoSegs == 2

\* Diagrams for the geometry: ringed and unringed nodes in a line, with the
\* marks 0 (an angle PI/0) and 1 (two mirrors that coincide) beside 3 and 4,
\* and two triangles closed by a virtual node.
GeoInputs ==
  Diagrams({ << "x" >>, << "o" >> },
           { << "0" >>, << "1" >>, << "3" >>, << "4" >> }, GeoSegs)
    \cup { << "x", "3", "o", "3", "o", "3", "*", "a" >>,
           << "x", "4", "x", "4", "x", "4", "*", "a" >> }

GeoInit == InitOn(GeoInputs)

\* Node::value
node_value(node) == IF node.kind = "Unringed" THEN 0 ELSE node.val

\* Cd::node_vector
node_vector(ns) == [i \in 0..(Len(ns) - 1) |-> F(node_value(ns[i + 1]))]

\* Matrix::zeros(n, n)
Zeros(n) == [c \in 0..(n - 1) |-> [r \in 0..(n - 1) |-> F(0)]]

RECURSIVE DotFrom(_, _, _, _)
\* The dot product of the vectors u and v of n entries, from entry k on.
DotFrom(u, v, n, k) ==
  IF k >= n THEN F(0) ELSE FAdd(FMul(u[k], v[k]), DotFrom(u, v, n, k + 1))

Dot(u, v, n) == DotFrom(u, v, n, 0)

RECURSIVE FillColumn(_, _, _, _, _)
\* The inner loop of normals over the columns j = k, ..., i - 1 before
\* column i of the matrix m of dimension n; cm is the Coxeter matrix.
FillColumn(cm, m, n, i, k) ==
  IF k >= i THEN m
  ELSE LET dot == Dot(m[i], m[k], n)
           g == FDiv(FSub(CosPiOver(cm[i][k]), dot), m[k][k])
       IN  FillColumn(cm, [m EXCEPT ![i][k] = g], n, i, k + 1)

\* The test of normals on column i of m: "if the vector doesn't fit in
\* spherical space", and the last entry of the column otherwise.
CheckColumn(m, n, i) ==
  LET norm_sq == Dot(m[i], m[i], n) IN
  IF FGe(norm_sq, F(Scale - EPS)) THEN [fits |-> FALSE, mat |-> m]
  ELSE [fits |-> TRUE,
        mat |-> [m EXCEPT ![i][i] = FSqrt(FSub(F(Scale), norm_sq))]]

\* cox().normals() is called on the returned diagram.
NormalsCall ==
  /\ Returned
  /\ normals_pc = "idle"
  /\ col' = 0
  /\ mat' = Zeros(dim)
  /\ IF dim = 0
     THEN normals_pc' = "done" /\ normals_res' = [tag |-> "Ok", v |-> Some(Zeros(0))]
     ELSE normals_pc' = "fill" /\ normals_res' = normals_res
  /\ UNCHANGED << input, build, pos, nodes, edges, next_edge, pc, edge_res,
                  result, radius_res, generator_res >>
  /\ UNCHANGED lin_vars

\* The inner loop of normals for column col.
NormalsFill ==
  /\ normals_pc = "fill"
  /\ mat' = FillColumn(cox(nodes, edges), mat, dim, col, 0)
  /\ normals_pc' = "check"
  /\ UNCHANGED << input, build, pos, nodes, edges, next_edge, pc, edge_res,
                  result, col, normals_res, radius_res, generator_res >>
  /\ UNCHANGED lin_vars

\* The end of the outer loop of normals for column col: None when the
\* column does not fit, the next column or the matrix otherwise.
NormalsCheck ==
  /\ normals_pc = "check"
  /\ LET checked == CheckColumn(mat, dim, col) IN
     /\ mat' = checked.mat
     /\ IF ~checked.fits
        THEN /\ normals_pc' = "done"
             /\ normals_res' = [tag |-> "Ok", v |-> None]
             /\ col' = col
        ELSE IF col + 1 = dim
        THEN /\ normals_pc' = "done"
             /\ normals_res' = [tag |-> "Ok", v |-> Some(checked.mat)]
             /\ col' = col
        ELSE /\ normals_pc' = "fill"
             /\ normals_res' = normals_res
             /\ col' = col + 1
  /\ UNCHANGED << input, build, pos, nodes, edges, next_edge, pc, edge_res,
                  result, radius_res, generator_res >>
  /\ UNCHANGED lin_vars

\* The sequence s without its k-th element.
Without(s, k) == SubSeq(s, 1, k - 1) \o SubSeq(s, k + 1, Len(s))

RECURSIVE Det(_, _, _)
\* The determinant of the rows rs and columns cs (sequences of indices of
\* one length) of the matrix m[row][column], expanded along the first row.
Det(m, rs, cs) ==
  IF rs = << >> THEN F(Scale)
  ELSE LET Term(k) ==
             LET t == FMul(m[rs[1]][cs[k]], Det(m, Tail(rs), Without(cs, k)))
             IN  IF k % 2 = 1 THEN t ELSE FSub(F(0), t)
           Sum[k \in 0..Len(cs)] ==
             IF k = 0 THEN F(0) ELSE FAdd(Sum[k - 1], Term(k))
       IN  Sum[Len(cs)]

\* The indices 0..n-1 in order.
Indices(n) == [k \in 1..n |-> k - 1]

\* Matrix::try_inverse_mut on the n x n matrix m: the inverse by cofactors
\* over the determinant, or no inverse when the determinant is zero (a NaN
\* is not zero).
try_inverse(m, n) ==
  LET all == Indices(n)
      det == Det(m, all, all)
      Cofactor(i, j) ==
        LET d == Det(m, Without(all, i + 1), Without(all, j + 1))
        IN  IF (i + j) % 2 = 0 THEN d ELSE FSub(F(0), d)
  IN  IF ~det.nan /\ det.v = 0 THEN None
      ELSE Some([i \in 0..(n - 1) |->
                  [j \in 0..(n - 1) |-> FDiv(Cofactor(j, i), det)]])

\* (node_vec.transpose() * m * node_vec)[(0, 0)]
QuadraticForm(m, v, n) ==
  LET mv == [i \in 0..(n - 1) |-> Dot(m[i], v, n)] IN Dot(v, mv, n)

\* The Coxeter matrix turned into the Schlafli matrix, entry by entry.
schlafli(cm, n) ==
  [i \in 0..(n - 1) |-> [j \in 0..(n - 1) |-> CosPiOver(cm[i][j])]]

\* Cd::circumradius
circumradius(ns, es) ==
  LET n == Len(ns)
      inverse == try_inverse(schlafli(cox(ns, es), n), n)
      sq_radius == FDiv(QuadraticForm(inverse.v, node_vector(ns), n),
                        F(0 - 4 * Scale))
  IN  IF ~inverse.some THEN None
      ELSE IF FLt(sq_radius, F(0 - EPS)) THEN None
      ELSE IF FGt(sq_radius, F(EPS)) THEN Some(FSqrt(sq_radius))
      ELSE Some(F(0))

\* circumradius() is called on the returned diagram.
Circumradius ==
  /\ Returned
  /\ radius_res.tag = "None"
  /\ radius_res' = [tag |-> "Ok", v |-> circumradius(nodes, edges)]
  /\ UNCHANGED << input, build, pos, nodes, edges, next_edge, pc, edge_res,
                  result, normals_pc, col, mat, normals_res, generator_res >>
  /\ UNCHANGED lin_vars

RECURSIVE normals_from(_, _, _, _)
\* The outer loop of normals from column i on: no result at the first
\* column that does not fit, the matrix after the last column.
normals_from(cm, m, n, i) ==
  IF i >= n THEN Some(m)
  ELSE LET checked == CheckColumn(FillColumn(cm, m, n, i, 0), n, i)
       IN  IF ~checked.fits THEN None
           ELSE normals_from(cm, checked.mat, n, i + 1)

\* CoxMatrix::normals in one piece, as Cd::generator calls it.
normals(cm, n) == normals_from(cm, Zeros(n), n, 0)

RECURSIVE SolveFrom(_, _, _)
\* Matrix::solve_upper_triangular_mut from row i upwards: m is the matrix
\* mat[column][row], b the right-hand side.  A diagonal entry that is zero
\* ends the solve without a solution (a NaN is not zero); otherwise row i
\* is divided and substituted into the rows above it.
SolveFrom(m, b, i) ==
  IF i < 0 THEN Some(b)
  ELSE LET diag == m[i][i] IN
       IF ~diag.nan /\ diag.v = 0 THEN None
       ELSE LET coeff == FDiv(b[i], diag)
                next == [r \in DOMAIN b |->
                          IF r = i THEN coeff
                          ELSE IF r < i
                               THEN FAdd(FMul(FSub(F(0), coeff), m[i][r]), b[r])
                          ELSE b[r]]
            IN  SolveFrom(m, next, i - 1)

solve_upper_triangular(m, b, n) == SolveFrom(m, b, n - 1)

\* Cd::generator with the node vector returned when there are no normals.
generator_without_normals(ns, es) ==
  LET n == Len(ns)
      normals_ == normals(cox(ns, es), n)
  IN  IF ~normals_.some THEN Some(node_vector(ns))
      ELSE solve_upper_triangular(normals_.v, node_vector(ns), n)

\* Cd::generator
generator(ns, es) ==
  LET n == Len(ns)
      normals_ == normals(cox(ns, es), n)
  IN  IF ~normals_.some THEN None
      ELSE solve_upper_triangular(normals_.v, node_vector(ns), n)

\* generator() is called on the returned diagram.
Generator ==
  /\ Returned
  /\ generator_res.tag = "None"
  /\ generator_res' = [tag |-> "Ok", v |-> generator(nodes, edges)]
  /\ UNCHANGED << input, build, pos, nodes, edges, next_edge, pc, edge_res,
                  result, normals_pc, col, mat, normals_res, radius_res >>
  /\ UNCHANGED lin_vars

GeoNext ==
  \/ CreateNode
  \/ CreateEdge
  \/ NormalsCall
  \/ NormalsFill
  \/ NormalsCheck
  \/ Circumradius
  \/ Generator

\* Cd::new on a diagram of GeoInputs, and then the methods of the geometry
\* on the diagram it returned.
GeoSpec == GeoInit /\ [][GeoNext]_vars

(***************************************************************************)
(* The grammar of the notation, stated apart from the builder              *)
(***************************************************************************)
IsLetter(c) == c \in Range(LowerSeq) \cup Range(UpperSeq)

\* The node index a letter names after "*": a is 0, b is 1, ...
LetterIndex(c) ==
  IF c \in Range(LowerSeq)
  THEN (CHOOSE k \in DOMAIN LowerSeq : LowerSeq[k] = c) - 1
  ELSE (CHOOSE k \in DOMAIN UpperSeq : UpperSeq[k] = c) - 1

\* A character a node token starts with.
TokenStart(c) == c = "(" \/ c = "*" \/ IsLetter(c) \/ c = EAcute

IsInteger(run) == run # << >> /\ AllDigits(run)

\* The positions of the "/" of a run <digits>/<digits>.
FractionBars(run) ==
  { k \in DOMAIN run :
      /\ run[k] = "/"
      /\ IsInteger(SubSeq(run, 1, k - 1))
      /\ IsInteger(SubSeq(run, k + 1, Len(run))) }

IsFraction(run) == FractionBars(run) # {}

\* The edge a run of digits, or <digits>/<digits>, stands for.
MarkOf(run) ==
  IF IsFraction(run)
  THEN LET k == CHOOSE b \in FractionBars(run) : TRUE IN
       [num |-> IntValue(SubSeq(run, 1, k - 1), 0),
        den |-> IntValue(SubSeq(run, k + 1, Len(run)), 0)]
  ELSE [num |-> IntValue(run, 0), den |-> 1]

\* The node token that starts at position p (one-based) of s, if it is
\* a letter of the table or a parenthesized signed decimal literal: the
\* position of its last character and its node.
LiteralTokenAt(s, p) ==
  LET closes == { q \in (p + 1)..Len(s) : s[q] = ")" }
      q == Min(closes)
      body == SubSeq(s, p + 1, q - 1)
      neg == body # << >> /\ Head(body) = "-"
      digits == IF neg THEN Tail(body) ELSE body
      v == parse_f64(digits)
  IN  IF closes = {} \/ digits = << >> THEN [ok |-> FALSE]
      ELSE IF ~is_digit(Head(digits)) \/ ~v.ok THEN [ok |-> FALSE]
      ELSE [ok |-> TRUE, end |-> q,
            node |-> ringed(IF neg THEN 0 - v.val ELSE v.val)]

PlainTokenAt(s, p) ==
  IF p > Len(s) THEN [ok |-> FALSE]
  ELSE IF s[p] \in TableSymbols
       THEN [ok |-> TRUE, end |-> p, node |-> TableNode(s[p])]
  ELSE IF s[p] = "(" THEN LiteralTokenAt(s, p)
  ELSE [ok |-> FALSE]

\* The last position of the run of digits that starts at position p of s
\* (p - 1 when no digit stands there).
RECURSIVE DigitRunEnd(_, _)
DigitRunEnd(s, p) ==
  IF p <= Len(s) /\ is_digit(s[p]) THEN DigitRunEnd(s, p + 1) ELSE p - 1

\* s from position p on as a linear diagram: table letters and literals
\* separated by integer edge marks.  Gives the nodes and the marks.
RECURSIVE LinearFrom(_, _, _, _)
LinearFrom(s, p, ns, ms) ==
  LET tok == PlainTokenAt(s, p) IN
  IF ~tok.ok THEN [ok |-> FALSE]
  ELSE IF tok.end = Len(s)
       THEN [ok |-> TRUE, nodes |-> Append(ns, tok.node), marks |-> ms]
  ELSE LET e == DigitRunEnd(s, tok.end + 1) IN
       IF e = tok.end \/ e = Len(s) THEN [ok |-> FALSE]
       ELSE LinearFrom(s, e + 1, Append(ns, tok.node),
                       Append(ms, IntValue(SubSeq(s, tok.end + 1, e), 0)))

Linear(s) == LinearFrom(s, 1, << >>, << >>)

\* The non-virtual node tokens of s, in order of appearance, from the node
\* token that starts at position p (one-based) on.
RECURSIVE NonVirtualTokens(_, _, _)
NonVirtualTokens(s, p, acc) ==
  IF p > Len(s) THEN acc
  ELSE
    LET closes == { q \in (p + 1)..Len(s) : s[q] = ")" }
        last == IF s[p] = "(" THEN (IF closes = {} THEN Len(s) ELSE Min(closes))
                ELSE IF s[p] = "*" THEN p + 1
                ELSE p
        toks == IF s[p] = "*" THEN acc
                ELSE Append(acc, SubSeq(s, p, last))
        starts == { k \in (last + 1)..Len(s) : TokenStart(s[k]) }
    IN  IF starts = {} THEN toks
        ELSE NonVirtualTokens(s, Min(starts), toks)

\* The node a node token decodes to.
DecodedNode(tok) == NodeParse(tok, ByteLen(tok) - 1, "release").node

\* The run create_edge is about to read, when a node token follows it.
RunFollowed ==
  /\ pc = "create_edge"
  /\ \E k \in (pos + 1)..Len(input) : TokenStart(input[k])

Run ==
  SubSeq(input, pos + 1,
         Min({ k \in (pos + 1)..Len(input) : TokenStart(input[k]) }) - 1)

\* create_node is about to read "*<letter>".
AtReference ==
  /\ pc = "create_node"
  /\ pos + 2 <= Len(input)
  /\ input[pos + 1] = "*"
  /\ IsLetter(input[pos + 2])

\* create_node has just read "*<letter>".
AfterReference ==
  /\ pc = "create_edge"
  /\ pos >= 2
  /\ input[pos - 1] = "*"
  /\ IsLetter(input[pos])

\* The index of the node that create_node is about to read.
IndexRead ==
  IF input[pos + 1] = "*" THEN LetterIndex(input[pos + 2]) ELSE Len(nodes)

One == [num |-> 1, den |-> 1]

Two == [num |-> 2, den |-> 1]

(***************************************************************************)
(* Claims                                                                  *)
(***************************************************************************)

\* C1: the matrix of every returned diagram is symmetric, with 1 in every
\* diagonal entry, also when a virtual node closes a second edge between
\* two nodes that an edge joins already.
C1_CoxSymmetric ==
  Returned =>
    LET m == cox(nodes, edges) IN
    \A i, j \in 0..(dim - 1) : FloatEq(m[i][j], m[j][i]) /\ m[i][i] = One

\* C2: a linear diagram (table letters and literals separated by integer
\* edge marks) is accepted; its nodes are the values of the node tokens in
\* order; its matrix holds the i-th mark at (i, i+1) and (i+1, i), 2 in the
\* other off-diagonal entries and 1 on the diagonal.
C2_LinearDiagram ==
  (pc = "done" /\ Linear(input).ok) =>
    LET ref == Linear(input)
        m == cox(nodes, edges)
    IN  /\ result.tag = "Ok"
        /\ nodes = ref.nodes
        /\ \A i, j \in 0..(dim - 1) :
             m[i][j] = IF i = j THEN One
                       ELSE IF j = i + 1 THEN [num |-> ref.marks[i + 1], den |-> 1]
                       ELSE IF i = j + 1 THEN [num |-> ref.marks[j + 1], den |-> 1]
                       ELSE Two

\* A linear diagram of three nodes or more, with a negative literal and an
\* unringed node, was returned.
C2_Witness ==
  /\ Returned
  /\ Linear(input).ok
  /\ dim >= 3
  /\ \E k \in DOMAIN nodes : nodes[k].kind = "Ringed" /\ nodes[k].val < 0
  /\ \E k \in DOMAIN nodes : nodes[k] = Unringed
  /\ \E k \in DOMAIN edges : edges[k].w.num >= 10

\* C3: an edge run that is one space, right before "*<letter>", does not
\* end the parse and leaves no edge value pending; reading the reference
\* then adds no edge and no node (the matrix is unchanged) and makes the
\* referenced node the pending one; the integer mark after the reference is
\* stored beside it; and the node read next is joined to the referenced
\* node with that mark.
C3_SpaceBeforeReference ==
  [][ /\ (RunFollowed /\ Run = << " " >> /\ input[pos + 2] = "*"
            /\ pos + 3 <= Len(input) /\ IsLetter(input[pos + 3]))
         => /\ pc' = "create_node"
            /\ result'.tag = "None"
            /\ pos' = pos + 1
            /\ next_edge' = next_edge
            /\ ~next_edge'.edge.some
      /\ (AtReference /\ ~next_edge.edge.some)
         => /\ pc' = "create_edge"
            /\ nodes' = nodes
            /\ edges' = edges
            /\ cox(nodes', edges') = cox(nodes, edges)
            /\ next_edge' = [node |-> Some(LetterIndex(input[pos + 2])),
                             edge |-> None]
      /\ (AfterReference /\ RunFollowed /\ IsInteger(Run))
         => /\ pc' = "create_node"
            /\ next_edge' = [node |-> Some(LetterIndex(input[pos])),
                             edge |-> Some(MarkOf(Run))]
      /\ (pc = "create_node" /\ next_edge.node.some /\ next_edge.edge.some
            /\ pc' = "create_edge")
         => edges' = Append(edges, [a |-> next_edge.node.v, b |-> IndexRead,
                                    w |-> next_edge.edge.v])
    ]_vars

\* A node, a space, a reference to another node that no edge joins to the
\* first, a mark and a node were read: the last edge joins the referenced
\* node to the last node with the mark.
C3_Witness ==
  /\ pc = "create_edge"
  /\ result.tag = "None"
  /\ pos >= 6
  /\ IsLetter(input[pos - 5]) /\ input[pos - 4] = " " /\ input[pos - 3] = "*"
  /\ IsLetter(input[pos - 2]) /\ is_digit(input[pos - 1])
  /\ input[pos] \in TableSymbols
  /\ dim >= 3
  /\ LetterIndex(input[pos - 2]) < dim - 2
  /\ cox(nodes, edges)[dim - 2][LetterIndex(input[pos - 2])] = Two
  /\ edges # << >>
  /\ edges[Len(edges)] = [a |-> LetterIndex(input[pos - 2]), b |-> dim - 1,
                          w |-> [num |-> DigitVal(input[pos - 1]), den |-> 1]]

\* C4: when two node tokens are directly adjacent, create_edge returns with
\* no edge value pending and Cd::new goes on to read the second node, which
\* no edge then joins to the first.
C4_AdjacentNodes ==
  [][ ( /\ pc = "create_edge"
        /\ pos < Len(input)
        /\ \/ input[pos + 1] \in TableSymbols
           \/ /\ input[pos + 1] = "*"
              /\ pos + 2 <= Len(input)
              /\ IsLetter(input[pos + 2]) )
      => /\ pc' = "create_node"
         /\ result'.tag = "None"
         /\ ~next_edge'.edge.some
    ]_vars

\* C5: create_edge decodes a run <digits>/<digits> between two node tokens
\* as the edge with that numerator and that denominator, and a run of
\* digits as the edge with denominator 1; the matrix entry of a diagram of
\* two table letters around such a run is numerator/denominator.
C5_EdgeDecoding ==
  /\ [][ (RunFollowed /\ (IsFraction(Run) \/ IsInteger(Run)))
         => next_edge'.edge = Some(MarkOf(Run)) ]_vars
  /\ [](LET run == SubSeq(input, 2, Len(input) - 1) IN
        ( /\ pc = "done"
          /\ Len(input) >= 3
          /\ input[1] \in TableSymbols
          /\ input[Len(input)] \in TableSymbols
          /\ (IsFraction(run) \/ IsInteger(run)) )
        => /\ Returned
           /\ dim = 2
           /\ FloatEq(cox(nodes, edges)[0][1], MarkOf(run))
           /\ FloatEq(cox(nodes, edges)[1][0], MarkOf(run)))

\* C6: every error is terminal: when create_edge has reported an error,
\* Cd::new is done and has returned that error, as AfterNode has it for
\* the errors of create_node.
C6_ErrorsTerminal ==
  edge_res.tag = "Err" => (pc = "done" /\ result = edge_res)

\* C7: a returned diagram has at most one edge between any pair of nodes.
C7_AtMostOneEdge ==
  Returned =>
    \A k, l \in DOMAIN edges :
      k # l => {edges[k].a, edges[k].b} # {edges[l].a, edges[l].b}

\* C8: a virtual reference names a node that exists when it is read: the
\* node of the pending slot is a node of the graph, and add_edge is never
\* asked for an edge to a node that does not exist.
C8_ReferenceResolves ==
  /\ next_edge.node.some => next_edge.node.v < Len(nodes)
  /\ result.tag = "Panic" =>
       result.msg # "Graph::add_edge: node indices out of bounds"
  /\ \A k \in DOMAIN edges : edges[k].a < Len(nodes) /\ edges[k].b < Len(nodes)

\* C9: reading a virtual node leaves the node list unchanged, and the nodes
\* of a returned diagram are the non-virtual node tokens of the input, in
\* order of appearance: the dimension is their number.
C9_VirtualAddsNoNode ==
  /\ [][ (pc = "create_node" /\ pos < Len(input) /\ input[pos + 1] = "*")
         => nodes' = nodes ]_vars
  /\ [](Returned =>
          LET toks == NonVirtualTokens(input, 1, << >>) IN
          /\ dim = Len(toks)
          /\ \A i \in 1..dim : nodes[i] = DecodedNode(toks[i]))

\* A diagram was returned whose input holds a virtual node between two
\* node tokens of different values.
C9_Witness ==
  /\ Returned
  /\ dim >= 2
  /\ nodes[1] # nodes[2]
  /\ \E k \in 2..(Len(input) - 2) :
       /\ input[k] = "*"
       /\ IsLetter(input[k + 1])
       /\ \E j \in (k + 2)..Len(input) : input[j] \in TableSymbols
  /\ Len(edges) >= 2

\* C10: when create_node reads a single character that is neither "(" nor
\* "*" nor a letter of the table, Cd::new fails with InvalidSymbol at the
\* offset of that character.
C10_InvalidSymbol ==
  [][ ( /\ pc = "create_node"
        /\ pos < Len(input)
        /\ input[pos + 1] \notin ({"(", "*"} \cup TableSymbols) )
      => (pc' = "done" /\ result' = Err("InvalidSymbol", pos)) ]_vars

\* C11: when create_node reads a "(" that no ")" follows before the input
\* ends, Cd::new fails with MismatchedParenthesis at the offset of the end
\* of the input: the number of characters of the input.
C11_UnclosedParenthesis ==
  [][ ( /\ pc = "create_node"
        /\ pos < Len(input)
        /\ input[pos + 1] = "("
        /\ \A q \in (pos + 2)..Len(input) : input[q] # ")" )
      => (pc' = "done" /\ result' = Err("MismatchedParenthesis", Len(input)))
    ]_vars

\* C12: when the character read after the "*" of a virtual reference is a
\* digit 0-9, or no digit of base 36, Cd::new fails with InvalidSymbol at
\* the offset of that character, one past the offset of the "*".
C12_ReferenceDigit ==
  [][ ( /\ pc = "create_node"
        /\ pos + 2 <= Len(input)
        /\ input[pos + 1] = "*"
        /\ ~IsLetter(input[pos + 2]) )
      => (pc' = "done" /\ result' = Err("InvalidSymbol", pos + 1)) ]_vars

\* Cd::new has failed on a reference by a digit that follows two nodes and
\* an edge mark: the offset is that of the digit, which a "*" precedes.
C12_Witness ==
  /\ pc = "done"
  /\ result.tag = "Err" /\ result.kind = "InvalidSymbol"
  /\ result.idx >= 4
  /\ dim = 2
  /\ edges # << >>
  /\ next_edge.edge.some
  /\ is_digit(input[result.idx + 1])
  /\ input[result.idx] = "*"

\* C13: when the input ends where create_node must read a node token (the
\* empty input), or right after the "*" of a virtual reference, Cd::new
\* fails with UnexpectedEnding at the length of the input: its number of
\* characters.
C13_UnexpectedEnding ==
  [][ ( /\ pc = "create_node"
        /\ \/ pos >= Len(input)
           \/ (input[pos + 1] = "*" /\ pos + 1 >= Len(input)) )
      => (pc' = "done" /\ result' = Err("UnexpectedEnding", Len(input)))
    ]_vars

\* C14: the offset of every error that Cd::new returns is a position in
\* characters of the input: that of the character read last, at which the
\* error was detected, or the number of characters of the input; it never
\* exceeds that number.
C14_CharacterOffset ==
  (pc = "done" /\ result.tag = "Err") =>
    /\ result.idx \in {pos - 1, Len(input)}
    /\ result.idx >= 0
    /\ result.idx <= Len(input)

\* The value, in units of 1/Scale, of the decimal d (digits, then an optional
\* point and digits), read from left to right: k is the position of the next
\* character, unit the weight of the next digit of the fraction (Scale
\* before the point).  -1 when d is no such decimal.
RECURSIVE DecimalFrom(_, _, _, _)
DecimalFrom(d, k, acc, unit) ==
  IF k > Len(d) THEN acc
  ELSE IF d[k] = "." THEN (IF unit = Scale /\ k > 1
                          THEN DecimalFrom(d, k + 1, acc, Scale \div 10)
                          ELSE 0 - 1)
  ELSE IF ~is_digit(d[k]) THEN 0 - 1
  ELSE IF unit = Scale
       THEN DecimalFrom(d, k + 1, acc * 10 + DigitVal(d[k]) * Scale, unit)
       ELSE DecimalFrom(d, k + 1, acc + DigitVal(d[k]) * unit, unit \div 10)

\* The parenthesized literal that starts at position p (one-based) of s,
\* with a sign among signs or none: the position of its ")" and its value.
SignedLiteralAt(s, p, signs) ==
  LET closes == { q \in (p + 1)..Len(s) : s[q] = ")" }
      q == Min(closes)
      body == SubSeq(s, p + 1, q - 1)
      signed == body # << >> /\ Head(body) \in signs
      d == IF signed THEN Tail(body) ELSE body
      v == DecimalFrom(d, 1, 0, Scale)
  IN  IF p > Len(s) THEN [ok |-> FALSE]
      ELSE IF s[p] # "(" \/ closes = {} THEN [ok |-> FALSE]
      ELSE IF d = << >> \/ v < 0 THEN [ok |-> FALSE]
      ELSE [ok |-> TRUE, end |-> q,
            val |-> IF signed /\ Head(body) = "-" THEN 0 - v ELSE v]

Root(y) ==
  CHOOSE n \in 0..(5 * Scale) :
    /\ (2 * n - 1) * (2 * n - 1) < 4 * y * Scale
    /\ 4 * y * Scale <= (2 * n + 1) * (2 * n + 1)

\* The constants of the table of the Symbol Decoder, from their algebraic
\* expressions, in units of 1/Scale.
Tabulated ==
  LET r2 == Root(2 * Scale)
      r3 == Root(3 * Scale)
      r5 == Root(5 * Scale)
  IN  [ v |-> (r5 - Scale) \div 2,
        x |-> Scale,
        q |-> r2,
        f |-> (r5 + Scale) \div 2,
        h |-> r3,
        k |-> Root(r2 + 2 * Scale),
        u |-> 2 * Scale,
        w |-> r2 + Scale,
        F |-> (r5 + 3 * Scale) \div 2,
        e |-> r3 + Scale,
        Q |-> 2 * r2,
        d |-> 3 * Scale,
        V |-> r5 + Scale,
        U |-> r2 + 2 * Scale,
        A |-> (r5 + 5 * Scale) \div 4,
        X |-> 2 * r2 + Scale,
        B |-> r5 + 2 * Scale ]

\* The node the table gives a letter.
TabulatedNode(c) ==
  IF c = "o" THEN [kind |-> "Unringed", val |-> 0]
  ELSE IF c = "s" THEN [kind |-> "Snub", val |-> Scale]
  ELSE [kind |-> "Ringed", val |-> Tabulated[c]]

TabulatedSymbols == DOMAIN Tabulated \cup {"o", "s"}

\* C16: create_node reads a letter of the table as its tabulated node ("o"
\* Unringed, "s" Snub(1), every other letter Ringed of its constant), and
\* the nodes of two letters of different constants around a mark differ.
C16_Shortchords ==
  /\ [][ (pc = "create_node" /\ pos < Len(input)
            /\ input[pos + 1] \in TabulatedSymbols)
         => nodes' = Append(nodes, TabulatedNode(input[pos + 1])) ]_vars
  /\ []( ( /\ pc = "done"
           /\ Len(input) = 3
           /\ input[1] \in DOMAIN Tabulated
           /\ input[2] = "3"
           /\ input[3] \in DOMAIN Tabulated
           /\ Tabulated[input[1]] # Tabulated[input[3]] )
         => (Returned /\ dim = 2 /\ nodes[1] # nodes[2]) )

\* The diagram of two letters whose constants are nearest to each other in
\* the table, "k" and "A", was returned with the two constants.
C16_Witness ==
  /\ Returned
  /\ input = << "k", "3", "A" >>
  /\ nodes = << ringed(Tabulated.k), ringed(Tabulated.A) >>
  /\ nodes[1].val > nodes[2].val

\* The edges of the graph that join nodes i and j, in either direction.
Joining(i, j) ==
  { k \in DOMAIN edges : {edges[k].a, edges[k].b} = {i, j} }

\* C17: the matrix of a returned diagram is square, of the dimension of the
\* diagram; an entry off the diagonal is the value of an edge that joins
\* its two nodes when there is one and 2 otherwise; every diagonal entry is
\* 1, also for a node that an edge joins to itself.
C17_CoxEntries ==
  Returned =>
    LET m == cox(nodes, edges) IN
    /\ DOMAIN m = 0..(dim - 1)
    /\ \A i \in 0..(dim - 1) :
         /\ DOMAIN m[i] = 0..(dim - 1)
         /\ m[i][i] = One
         /\ \A j \in 0..(dim - 1) \ {i} :
              IF Joining(i, j) = {} THEN m[i][j] = Two
              ELSE \E k \in Joining(i, j) :
                     m[i][j] = [num |-> edges[k].w.num, den |-> edges[k].w.den]

\* A diagram of three nodes was returned in which an edge joins the first
\* node to itself, edges join the first to the second and the second to
\* the third, and none joins the first to the third.
C17_Witness ==
  /\ Returned
  /\ dim = 3
  /\ Joining(0, 0) # {}
  /\ Joining(0, 1) # {}
  /\ Joining(1, 2) # {}
  /\ Joining(0, 2) = {}
  /\ \E k \in Joining(0, 1), l \in Joining(1, 2) : edges[k].w # edges[l].w

\* C20: a create_node that returns Ok leaves the slot with the index of the
\* node it read (the new node, or the node a reference names) and no edge
\* value; it has added one edge when both fields of the slot were set on
\* entry, from the node of the slot to the node read with the value of the
\* slot, and none otherwise.
C20_PendingEdge ==
  [][ (pc = "create_node" /\ pc' = "create_edge")
      => /\ next_edge' = [node |-> Some(IndexRead), edge |-> None]
         /\ edges' = IF next_edge.node.some /\ next_edge.edge.some
                     THEN Append(edges, [a |-> next_edge.node.v,
                                         b |-> IndexRead,
                                         w |-> next_edge.edge.v])
                     ELSE edges ]_vars

\* A reference to the first node was read after two nodes and a mark: the
\* edge from the second node to the first was added, and the slot holds
\* the first node and no edge value.
C20_Witness ==
  /\ AfterReference
  /\ dim = 2
  /\ LetterIndex(input[pos]) = 0
  /\ next_edge = [node |-> Some(0), edge |-> None]
  /\ Len(edges) = 2
  /\ edges[2].a = 1 /\ edges[2].b = 0

RECURSIVE PrefixSquares(_, _)
\* The sum of the squares of the entries 0..i-1 of the column c.
PrefixSquares(c, i) ==
  IF i = 0 THEN F(0)
  ELSE FAdd(PrefixSquares(c, i - 1), FMul(c[i - 1], c[i - 1]))

\* 1 - epsilon
Bound == F(Scale - EPS)

\* C18: normals returns no result when the sum of the squares of the
\* entries 0..i-1 computed for a column i reaches or exceeds 1 - epsilon,
\* and the columns of a matrix that it returns all have that sum below
\* 1 - epsilon.
C18_NormalsBound ==
  /\ [][ ( /\ normals_pc = "check"
           /\ normals_pc' # "check"
           /\ FGe(PrefixSquares(mat[col], col), Bound) )
         => (normals_pc' = "done" /\ normals_res' = [tag |-> "Ok", v |-> None])
       ]_vars
  /\ []( (normals_res.tag = "Ok" /\ normals_res.v.some)
         => \A i \in 0..(dim - 1) :
              FLt(PrefixSquares(normals_res.v.v[i], i), Bound) )

\* The r^2 that circumradius computes from the inverse of the Schlafli
\* matrix, when there is one.
ComputedInverse == try_inverse(schlafli(cox(nodes, edges), dim), dim)

ComputedSqRadius ==
  FDiv(QuadraticForm(ComputedInverse.v, node_vector(nodes), dim),
       F(0 - 4 * Scale))

\* C19: circumradius returns no result when the Schlafli matrix has no
\* inverse or r^2 is below -epsilon, exactly 0 when |r^2| <= epsilon, and
\* the square root of r^2 in every other case; it never returns a negative
\* value.
C19_Circumradius ==
  radius_res.tag = "Ok" =>
    LET r == radius_res.v
        r2 == ComputedSqRadius
    IN  /\ IF ~ComputedInverse.some THEN r = None
           ELSE IF FLt(r2, F(0 - EPS)) THEN r = None
           ELSE IF FGe(r2, F(0 - EPS)) /\ FGe(F(EPS), r2) THEN r = Some(F(0))
           ELSE r = Some(FSqrt(r2))
        /\ r.some => ~FLt(r.v, F(0))

(***************************************************************************)
(* The constructors of CoxMatrix: trivial, i2, a, b, from_lin_diagram      *)
(***************************************************************************)
\* The longest vector given to from_lin_diagram.
MaxDiagram == 3

\* The largest n given to a and b.
MaxRank == 4

\* The entries of the vectors, in thousandths: 2, 5/2, 3, 4, 5.
LinMarks == { 2 * Scale, (5 * Scale) \div 2, 3 * Scale, 4 * Scale, 5 * Scale }

RECURSIVE Vectors(_)
\* The vectors of at most n entries of LinMarks.
Vectors(n) ==
  IF n = 0 THEN { << >> }
  ELSE Vectors(n - 1)
         \cup { Append(d, x) : d \in { e \in Vectors(n - 1) : Len(e) = n - 1 },
                               x \in LinMarks }

\* The calls of the constructors.
LinCalls ==
  { [fn |-> "from_lin_diagram", d |-> d, n |-> 0] : d \in Vectors(MaxDiagram) }
    \cup { [fn |-> "i2", d |-> << x >>, n |-> 0] : x \in LinMarks }
    \cup { [fn |-> f, d |-> << >>, n |-> n] : f \in { "a", "b" }, n \in 0..MaxRank }
    \cup { [fn |-> "trivial", d |-> << >>, n |-> 0] }

\* A constructor of CoxMatrix is about to be called; Cd::new is not.
LinInit ==
  /\ input = << >>
  /\ build = "debug"
  /\ pos = 0
  /\ nodes = << >>
  /\ edges = << >>
  /\ next_edge = [node |-> None, edge |-> None]
  /\ pc = "create_node"
  /\ edge_res = [tag |-> "None"]
  /\ result = [tag |-> "None"]
  /\ normals_pc = "idle"
  /\ col = 0
  /\ mat = << >>
  /\ normals_res = [tag |-> "None"]
  /\ radius_res = [tag |-> "None"]
  /\ generator_res = [tag |-> "None"]
  /\ lin_call \in LinCalls
  /\ lin_res = [tag |-> "None"]

\* vec![x; n]
Vec(x, n) == [k \in 1..n |-> x]

\* from_lin_diagram with diagram[i] taken without the swap that makes
\* i <= j: below the diagonal every entry off it is 2.
from_lin_diagram_unswapped(d) ==
  LET dim_ == Len(d) + 1 IN
  [tag |-> "Ok",
   m |-> [i \in 0..(dim_ - 1) |->
           [j \in 0..(dim_ - 1) |->
             IF j - i = 0 THEN Scale
             ELSE IF j - i = 1 THEN d[i + 1]
             ELSE 2 * Scale]]]

\* CoxMatrix::from_lin_diagram: entry (i, j) of the matrix of dimension
\* diagram.len() + 1, zero-based; diagram[i] is d[i + 1].
from_lin_diagram(d) ==
  LET dim_ == Len(d) + 1 IN
  [tag |-> "Ok",
   m |-> [i \in 0..(dim_ - 1) |->
           [j \in 0..(dim_ - 1) |->
             LET lo == IF i > j THEN j ELSE i
                 hi == IF i > j THEN i ELSE j
             IN  IF hi - lo = 0 THEN Scale
                 ELSE IF hi - lo = 1 THEN d[lo + 1]
                 ELSE 2 * Scale]]]

\* CoxMatrix::trivial
trivial == [tag |-> "Ok", m |-> [i \in { 0 } |-> [j \in { 0 } |-> Scale]]]

\* CoxMatrix::i2
i2(x) == from_lin_diagram(<< x >>)

\* CoxMatrix::a: n - 1 underflows for n = 0 (a panic with the overflow
\* checks, and a vector of usize::MAX entries, which cannot be allocated,
\* without them).
a(n) ==
  IF n = 0 THEN Panic("a: n - 1 overflows")
  ELSE from_lin_diagram(Vec(3 * Scale, n - 1))

\* CoxMatrix::b: diagram[0] = 4.0 is an index out of bounds when the vector
\* is empty.
b(n) ==
  IF n = 0 THEN Panic("b: n - 1 overflows")
  ELSE LET diagram == Vec(3 * Scale, n - 1) IN
       IF Len(diagram) = 0
       THEN Panic("index out of bounds: the len is 0 but the index is 0")
       ELSE from_lin_diagram([diagram EXCEPT ![1] = 4 * Scale])

\* What the parser and the geometry hold while a constructor is called.
LinFrame ==
  /\ UNCHANGED << input, build, pos, nodes, edges, next_edge, pc, edge_res,
                  result, lin_call >>
  /\ UNCHANGED geo_vars

FromLinDiagram ==
  /\ lin_call.fn = "from_lin_diagram"
  /\ lin_res.tag = "None"
  /\ lin_res' = from_lin_diagram(lin_call.d)
  /\ LinFrame

I2 ==
  /\ lin_call.fn = "i2"
  /\ lin_res.tag = "None"
  /\ lin_res' = i2(lin_call.d[1])
  /\ LinFrame

A ==
  /\ lin_call.fn = "a"
  /\ lin_res.tag = "None"
  /\ lin_res' = a(lin_call.n)
  /\ LinFrame

B ==
  /\ lin_call.fn = "b"
  /\ lin_res.tag = "None"
  /\ lin_res' = b(lin_call.n)
  /\ LinFrame

Trivial ==
  /\ lin_call.fn = "trivial"
  /\ lin_res.tag = "None"
  /\ lin_res' = trivial
  /\ LinFrame

LinNext == FromLinDiagram \/ I2 \/ A \/ B \/ Trivial

\* One call of a constructor of CoxMatrix.
LinSpec == LinInit /\ [][LinNext]_vars

(***************************************************************************)
(* The loop of Cd::new                                                     *)
(***************************************************************************)
\* No character from position p (one-based) of the input on starts a node
\* token.
NoTokenFrom(p) == \A k \in p..Len(input) : ~TokenStart(input[k])

\* C21: when create_edge is called and no character that starts a node
\* token is left in the input, Cd::new returns the graph as the last
\* create_node left it: the characters that remain add no node and no edge.
C21_TrailingCharacters ==
  [][ (pc = "create_edge" /\ NoTokenFrom(pos + 1))
      => /\ pc' = "done"
         /\ result' = [tag |-> "Ok"]
         /\ nodes' = nodes
         /\ edges' = edges ]_vars

\* A diagram of one node was returned for an input of three characters:
\* the two after the node are no digits only.
C21_Witness ==
  /\ Returned
  /\ Len(input) = 3
  /\ NoTokenFrom(2)
  /\ ~is_digit(input[3])
  /\ dim = 1
  /\ edges = << >>

\* C22: a create_edge that is called with a node-start character left
\* ("(", "*" or alphabetic) stops before the first of them: every
\* character it consumed is none, and the character after the position it
\* leaves is one; each create_node after the first starts at such a
\* character.
C22_EdgeStops ==
  /\ [][ RunFollowed
         => /\ pos <= pos' /\ pos' < Len(input)
            /\ TokenStart(input[pos' + 1])
            /\ \A q \in (pos + 1)..pos' : ~TokenStart(input[q]) ]_vars
  /\ []( (pc = "create_node" /\ pos > 0)
         => (pos < Len(input) /\ TokenStart(input[pos + 1])) )

\* create_edge consumed a run of two digits and left the node-start
\* character after them to create_node.
C22_Witness ==
  /\ pc = "create_node"
  /\ pos >= 3
  /\ is_digit(input[pos]) /\ is_digit(input[pos - 1])
  /\ TokenStart(input[pos - 2])
  /\ pos < Len(input)
  /\ TokenStart(input[pos + 1])
  /\ next_edge.edge.some

\* s is t, or t without its last element.
Extends(t, s) ==
  /\ Len(s) <= Len(t)
  /\ Len(t) <= Len(s) + 1
  /\ SubSeq(t, 1, Len(s)) = s

\* C23: a create_node leaves the nodes and the edges it found in place and
\* unchanged, and adds at most one node and at most one edge after them; a
\* create_edge leaves the graph as it is.
C23_AppendOnly ==
  [][ /\ pc = "create_node" => (Extends(nodes', nodes) /\ Extends(edges', edges))
      /\ pc = "create_edge" => (nodes' = nodes /\ edges' = edges) ]_vars

\* A create_node added the third node and the second edge, after a
\* reference closed an edge between nodes that one joined already.
C23_Witness ==
  /\ pc = "create_edge"
  /\ dim = 2
  /\ Len(edges) = 2
  /\ { edges[1].a, edges[1].b } = { edges[2].a, edges[2].b }
  /\ edges[1].w # edges[2].w

\* The characters of the input that are not consumed yet.
Remaining == Len(input) - pos

\* C24: every call of create_node and of create_edge either ends Cd::new
\* or consumes at least one character, and no call reads past the input:
\* Cd::new ends after at most as many calls that go on as the input has
\* characters, and it ends with something to return.
C24_Terminates ==
  /\ [][ pc' = "done" \/ Remaining' < Remaining ]_vars
  /\ []( /\ 0 <= Remaining
         /\ pc = "done" => result.tag # "None" )

\* Cd::new returned a diagram of three nodes or more after it consumed
\* six characters or more.
C24_Witness ==
  /\ Returned
  /\ pos = Len(input)
  /\ Len(input) >= 6
  /\ dim >= 3

\* create_node is about to read a parenthesized token: a "(" with a ")"
\* after it.
AtParenthesized ==
  /\ pc = "create_node"
  /\ pos < Len(input)
  /\ input[pos + 1] = "("
  /\ \E q \in (pos + 2)..Len(input) : input[q] = ")"

\* C25: a parenthesized token that create_node accepts is a signed decimal
\* literal and adds the node Ringed(v), v the value of the literal; a
\* parenthesized token whose content is no signed decimal literal ends
\* Cd::new with an error.
C25_ParenthesizedToken ==
  [][ AtParenthesized
      => LET lit == SignedLiteralAt(input, pos + 1, {"+", "-"}) IN
         /\ pc' = "create_edge"
              => (lit.ok /\ nodes' = Append(nodes, ringed(lit.val)))
         /\ ~lit.ok => (pc' = "done" /\ result'.tag = "Err") ]_vars

\* C28: no edge of a returned diagram joins a node to itself.
C28_NoSelfLoop ==
  Returned => \A k \in DOMAIN edges : edges[k].a # edges[k].b

(***************************************************************************)
(* The normals and the generator                                           *)
(***************************************************************************)
\* C26: a matrix that normals returns is upper triangular (column i is zero
\* in the rows after row i) and its diagonal entries are strictly positive;
\* the entry gen_j[j] that the inner loop divides by is never zero.
C26_UpperTriangular ==
  /\ []( (normals_res.tag = "Ok" /\ normals_res.v.some)
         => LET m == normals_res.v.v IN
            /\ \A i \in 0..(dim - 1), r \in 0..(dim - 1) :
                 r > i => m[i][r] = F(0)
            /\ \A i \in 0..(dim - 1) : FGt(m[i][i], F(0)) )
  /\ []( normals_pc = "fill"
         => \A j \in 0..(col - 1) : mat[j][j] # F(0) )

\* C27: generator returns no result when normals returns none, and a
\* vector of dim entries or no result when normals returns a matrix.
C27_Generator ==
  (generator_res.tag = "Ok" /\ normals_res.tag = "Ok")
    => /\ ~normals_res.v.some => generator_res.v = None
       /\ generator_res.v.some
            => /\ normals_res.v.some
               /\ DOMAIN generator_res.v.v = 0..(dim - 1)

\* generator returned no result for a diagram of three nodes for which
\* normals returned none.
C27_Witness ==
  /\ dim = 3
  /\ normals_res = [tag |-> "Ok", v |-> None]
  /\ generator_res = [tag |-> "Ok", v |-> None]

(***************************************************************************)
(* The constructors of CoxMatrix                                           *)
(***************************************************************************)
\* The matrix m has the rows and the columns 0..n-1.
IsSquare(m, n) ==
  /\ DOMAIN m = 0..(n - 1)
  /\ \A i \in 0..(n - 1) : DOMAIN m[i] = 0..(n - 1)

\* The matrix m of dimension n is the Coxeter matrix of the linear diagram
\* with the marks d: symmetric, 1 on the diagonal, the mark d[min(i, j)]
\* (zero-based) between neighbours and 2 everywhere else.
IsLinearMatrix(m, d, n) ==
  /\ IsSquare(m, n)
  /\ \A i \in 0..(n - 1), j \in 0..(n - 1) :
       /\ m[i][j] = m[j][i]
       /\ i = j => m[i][j] = Scale
       /\ j = i + 1 => (m[i][j] = d[i + 1] /\ m[j][i] = d[i + 1])
       /\ (j > i + 1 \/ i > j + 1) => m[i][j] = 2 * Scale

\* C29: from_lin_diagram(d) returns the square symmetric matrix of
\* dimension len(d) + 1 with 1 on the diagonal, d[min(i, j)] where
\* |i - j| = 1 and 2 where |i - j| > 1, for every d, the empty one too.
C29_FromLinDiagram ==
  (lin_call.fn = "from_lin_diagram" /\ lin_res.tag # "None")
    => /\ lin_res.tag = "Ok"
       /\ IsLinearMatrix(lin_res.m, lin_call.d, Len(lin_call.d) + 1)

\* from_lin_diagram returned the matrix of a vector of three marks, no two
\* of them equal.
C29_Witness ==
  /\ lin_call.fn = "from_lin_diagram"
  /\ Len(lin_call.d) = 3
  /\ lin_call.d[1] # lin_call.d[2]
  /\ lin_call.d[2] # lin_call.d[3]
  /\ lin_call.d[1] # lin_call.d[3]
  /\ lin_res.tag = "Ok"
  /\ lin_res.m[1][2] = lin_call.d[2]
  /\ lin_res.m[2][1] = lin_call.d[2]

\* The marks of A_n, and of B_n for n >= 2.
MarksOf(fn, n) ==
  [k \in 1..(n - 1) |-> IF fn = "b" /\ k = 1 THEN 4 * Scale ELSE 3 * Scale]

\* C30: for every n >= 1, a(n) and b(n) return the n x n Coxeter matrix of
\* the linear diagram whose marks are all 3, but for the first mark 4 of
\* b(n); a(1) and b(1) return the 1 x 1 matrix [1] that trivial returns.
C30_Families ==
  (lin_call.fn \in { "a", "b" } /\ lin_call.n >= 1 /\ lin_res.tag # "None")
    => /\ lin_res.tag = "Ok"
       /\ IsLinearMatrix(lin_res.m, MarksOf(lin_call.fn, lin_call.n),
                         lin_call.n)
       /\ lin_call.n = 1 => lin_res = trivial

====
